---- MODULE Spec2Model ----
(***************************************************************************)
(* A model of the data-access layer of dev_events:                         *)
(*   - src/lib/mongodb.ts      the cached connection (connectToDatabase)   *)
(*   - src/unnamed/part_000    the Event schema and its pre-save hook      *)
(*   - src/unnamed/part_001    the Booking schema and its pre-save hook    *)
(* Strings are sequences of one-character strings, so that trimming,       *)
(* lowercasing, slug derivation and the email pattern are computed.        *)
(***************************************************************************)
EXTENDS Integers, Sequences, FiniteSets, TLC

VARIABLES
    conn,        \* cached.conn: 0 (null) or the handle
    promise,     \* cached.promise: 0 (null) or the attempt it stands for
    attempts,    \* the mongoose.connect() attempts made so far, each "pending", "ok" or "failed"
    uri,         \* whether process.env.MONGODB_URI is set
    envReads,    \* how many times process.env.MONGODB_URI was read
    cpc,         \* per caller of connectToDatabase: "idle", "awaiting", "returned", "threw"
    cawait,      \* per caller: the attempt its await is suspended on (0: none)
    cres,        \* per caller: the handle returned (a number) or the error thrown
    events,      \* the Event collection: _id -> stored document, or Removed
    edoc,        \* the Event document held in memory by the caller (or NoDoc)
    epc,         \* where that document's save() is: "none", "ready", "hooked", "saved", "failed"
    eerr,        \* the error the last save() of the Event document ended with
    bookings,    \* the Booking collection: a sequence of stored documents
    bdoc,        \* the Booking document held in memory by the caller (or NoDoc)
    bpc,         \* where its save() is: "none", "ready", "validated", "looked", "hooked", "saved", "failed"
    berr,        \* the error the last save() of the Booking document ended with
    existingEvent  \* the hook's local of line 59: "unset", "null" or "found"

connVars == <<conn, promise, attempts, uri, envReads, cpc, cawait, cres>>
eventVars == <<events, edoc, epc, eerr>>
bookingVars == <<bookings, bdoc, bpc, berr, existingEvent>>
vars == <<connVars, eventVars, bookingVars>>

----------------------------------------------------------------------------
(* Bounds *)

NumCallers == 3
MaxEvents == 2
MaxBookings == 2

----------------------------------------------------------------------------
(* Strings: sequences of characters, with the String methods the code uses *)

UpperLetters == <<"A","B","C","D","E","F","G","H","I","J","K","L","M",
                  "N","O","P","Q","R","S","T","U","V","W","X","Y","Z">>
LowerLetters == <<"a","b","c","d","e","f","g","h","i","j","k","l","m",
                  "n","o","p","q","r","s","t","u","v","w","x","y","z">>
Digits == <<"0","1","2","3","4","5","6","7","8","9">>

Range(s) == {s[i] : i \in 1..Len(s)}

\* \s of the regular expressions, and the characters String.trim() strips
IsSpace(ch) == ch \in {" ", "\t", "\n"}

IsDigit(ch) == ch \in Range(Digits)

DigitValue(ch) == (CHOOSE i \in 1..Len(Digits) : Digits[i] = ch) - 1

LowerChar(ch) ==
    IF ch \in Range(UpperLetters)
    THEN LowerLetters[CHOOSE i \in 1..Len(UpperLetters) : UpperLetters[i] = ch]
    ELSE ch

\* String.prototype.toLowerCase
ToLowerCase(s) == [i \in 1..Len(s) |-> LowerChar(s[i])]

RECURSIVE TrimStart(_)
TrimStart(s) ==
    IF s # <<>> /\ IsSpace(Head(s)) THEN TrimStart(Tail(s)) ELSE s

RECURSIVE TrimEnd(_)
TrimEnd(s) ==
    IF s # <<>> /\ IsSpace(s[Len(s)]) THEN TrimEnd(SubSeq(s, 1, Len(s) - 1)) ELSE s

\* String.prototype.trim
Trim(s) == TrimEnd(TrimStart(s))

\* s.replace(/[^...]/g, ''): keep the characters that satisfy Keep
RECURSIVE Filter(_, _)
Filter(s, keep) ==
    IF s = <<>> THEN <<>>
    ELSE IF Head(s) \in keep THEN <<Head(s)>> \o Filter(Tail(s), keep)
    ELSE Filter(Tail(s), keep)

\* s.replace(/X+/g, '-') for a class X of characters: each maximal run of
\* characters of the class becomes one dash
RECURSIVE RunsToDash(_, _)
RunsToDash(s, class) ==
    IF s = <<>> THEN <<>>
    ELSE IF Head(s) \in class
         THEN IF Len(s) > 1 /\ s[2] \in class
              THEN RunsToDash(Tail(s), class)
              ELSE <<"-">> \o RunsToDash(Tail(s), class)
         ELSE <<Head(s)>> \o RunsToDash(Tail(s), class)

\* n.toString().padStart(2, '0') for 0 <= n <= 99... and beyond
PadStart2(n) ==
    IF n < 10 THEN <<"0", Digits[n + 1]>>
    ELSE <<Digits[(n \div 10) + 1], Digits[(n % 10) + 1]>>

\* The values a caller assigns to a String path: undefined, a string, a number
\* (which the path casts to its decimal string) or a value that cannot be
\* cast to a string, such as an object. A stored path holds the first two.
Absent == [k |-> "undefined", s |-> <<>>]
NonString == [k |-> "object", s |-> <<>>]
Number7 == [k |-> "number", s |-> <<"7">>]
Castable(v) == v.k \in {"string", "number"}
Str(s) == [k |-> "string", s |-> s]
IsString(v) == v.k = "string"

----------------------------------------------------------------------------
(* src/unnamed/part_000: the Event model *)

\* Line 162-174, in the order the hook visits them
requiredStringFields ==
    <<"title", "description", "overview", "image", "venue", "location",
      "date", "time", "mode", "audience", "organizer">>

\* The String paths of eventSchema (lines 63-131); all of them have trim: true
StringPaths == Range(requiredStringFields) \cup {"slug"}

\* The schema's paths declared required: true (slug, lines 68-72, is not)
RequiredPaths == Range(requiredStringFields)

\* Line 37: the characters /[^a-z0-9\s-]/g does not remove
SlugChars == Range(LowerLetters) \cup Range(Digits) \cup {" ", "\t", "\n", "-"}

\* Line 33-40
slugify(value) ==
    RunsToDash(
        RunsToDash(
            Filter(Trim(ToLowerCase(value)), SlugChars),
            {" ", "\t", "\n"}),
        {"-"})

\* new Date(s) for the forms the model feeds it: a date-only ISO form
\* YYYY-MM-DD and the full form YYYY-MM-DDTHH:MM:SS.mmmZ. Anything else in
\* the model's input set is no date. The result is the time value's fields,
\* or ok = FALSE for NaN.
AllDigits(s, from, to) == \A i \in from..to : IsDigit(s[i])

TwoDigits(s, i) == 10 * DigitValue(s[i]) + DigitValue(s[i + 1])

IsDatePart(s) ==
    /\ Len(s) >= 10
    /\ AllDigits(s, 1, 4) /\ s[5] = "-" /\ AllDigits(s, 6, 7)
    /\ s[8] = "-" /\ AllDigits(s, 9, 10)
    /\ TwoDigits(s, 6) \in 1..12
    /\ TwoDigits(s, 9) \in 1..28   \* days every month has

IsClockPart(s) ==
    /\ Len(s) \in {5, 8}
    /\ AllDigits(s, 1, 2) /\ s[3] = ":" /\ AllDigits(s, 4, 5)
    /\ TwoDigits(s, 1) \in 0..23
    /\ TwoDigits(s, 4) \in 0..59
    /\ Len(s) = 8 => (s[6] = ":" /\ AllDigits(s, 7, 8) /\ TwoDigits(s, 7) \in 0..59)

MidnightUTC == <<"T", "0", "0", ":", "0", "0", ":", "0", "0", ".", "0", "0", "0", "Z">>

\* Line 191-195: new Date(doc.date), getTime() is NaN or not, toISOString()
ParseDate(s) ==
    IF Len(s) = 10 /\ IsDatePart(s)
    THEN [ok |-> TRUE, iso |-> s \o MidnightUTC]
    ELSE IF Len(s) = 24 /\ IsDatePart(s) /\ SubSeq(s, 11, 24) = MidnightUTC
         THEN [ok |-> TRUE, iso |-> s]
         ELSE [ok |-> FALSE, iso |-> <<>>]

InvalidTimeError == "Invalid time format for event. Expected a valid time string."
InvalidDateError == "Invalid date format for event. Expected a valid date string."
RequiredFieldError == "Field is required and cannot be empty."
ValidationError == "ValidationError"
DuplicateKeyError == "E11000 duplicate key error"
DocumentNotFoundError == "DocumentNotFoundError"
NoError == ""

\* Line 46-59: new Date(`1970-01-01T${trimmed}`) is a local time, so
\* getHours() and getMinutes() are the hours and minutes written.
normalizeTime(value) ==
    LET trimmed == Trim(value) IN
    IF IsClockPart(trimmed)
    THEN [ok |-> TRUE,
          time |-> PadStart2(TwoDigits(trimmed, 1)) \o <<":">> \o PadStart2(TwoDigits(trimmed, 4))]
    ELSE [ok |-> FALSE, time |-> <<>>]

\* Assigning v to a String path of a document: the value is cast, then the
\* trim setter (trim: true) is applied; a value that cannot be cast leaves
\* the path as it was and records a cast error; the path is marked modified
\* when its value changes.
SetPath(doc, path, v) ==
    IF v = NonString
    THEN [doc EXCEPT !.castErrors = @ \cup {path}]
    ELSE LET nv == IF Castable(v) THEN Str(Trim(v.s)) ELSE Absent IN
         [doc EXCEPT !.f[path] = nv,
                     !.castErrors = @ \ {path},
                     !.modified = IF nv # doc.f[path] THEN @ \cup {path} ELSE @]

\* Line 122-123 and 136-137: the validator of agenda and of tags
ArrayValidator(value) ==
    /\ Len(value) > 0
    /\ \A i \in 1..Len(value) : Len(Trim(value[i])) > 0

\* required: true of a String path: the value is a string and not empty
RequiredOk(v) == IsString(v) /\ Len(v.s) > 0

\* The validation, were a failed cast of an assigned value not reported
SchemaValid_IgnoresCastErrors(doc) ==
    /\ \A path \in RequiredPaths : RequiredOk(doc.f[path])
    /\ ArrayValidator(doc.agenda)
    /\ ArrayValidator(doc.tags)

\* The schema's validation (lines 63-140), run by save() before the pre-save
\* hook: cast errors, required paths, the two array validators.
SchemaValid(doc) ==
    /\ doc.castErrors = {}
    /\ \A path \in RequiredPaths : RequiredOk(doc.f[path])
    /\ ArrayValidator(doc.agenda)
    /\ ArrayValidator(doc.tags)

\* new Event(attrs)
NewEvent(attrs) ==
    LET blank == [id |-> 0, isNew |-> TRUE,
                  f |-> [path \in StringPaths |-> Absent],
                  agenda |-> attrs.agenda, tags |-> attrs.tags,
                  modified |-> {}, castErrors |-> {}]
        paths == requiredStringFields \o <<"slug">>
        RECURSIVE SetAll(_, _)
        SetAll(doc, i) ==
            IF i > Len(paths) THEN doc
            ELSE SetAll(IF attrs.f[paths[i]] = Absent THEN doc
                        ELSE SetPath(doc, paths[i], attrs.f[paths[i]]), i + 1)
    IN SetAll(blank, 1)

\* Line 178: the hook's test of one field
FieldBad(v) == ~IsString(v) \/ Len(Trim(v.s)) = 0

\* Line 176-183: the loop stops at the first bad field; the fields before it
\* have been assigned their trimmed values.
RECURSIVE RequireStrings(_, _)
RequireStrings(doc, i) ==
    IF i > Len(requiredStringFields) THEN [doc |-> doc, err |-> NoError]
    ELSE LET field == requiredStringFields[i]
             value == doc.f[field]
         IN IF FieldBad(value)
            THEN [doc |-> doc, err |-> RequiredFieldError]
            ELSE RequireStrings(SetPath(doc, field, Str(Trim(value.s))), i + 1)

\* Line 186, were the slug regenerated only when the title changes
SlugStale_TitleOnly(doc) == "title" \in doc.modified

\* Line 186: doc.isModified('title') || !doc.slug
SlugStale(doc) ==
    \/ "title" \in doc.modified
    \/ ~IsString(doc.f["slug"])
    \/ doc.f["slug"].s = <<>>

\* Line 185-188
DeriveSlug(doc) ==
    IF SlugStale(doc) THEN SetPath(doc, "slug", Str(slugify(doc.f["title"].s))) ELSE doc

\* The hook, were it to parse date and time before it assigns anything
EventPreSaveHook_CheckFirst(doc0) ==
    LET r1 == RequireStrings(doc0, 1) IN
    IF r1.err # NoError THEN [doc |-> doc0, err |-> r1.err]
    ELSE IF ~ParseDate(r1.doc.f["date"].s).ok THEN [doc |-> doc0, err |-> InvalidDateError]
    ELSE IF ~normalizeTime(r1.doc.f["time"].s).ok THEN [doc |-> doc0, err |-> InvalidTimeError]
    ELSE LET d2 == DeriveSlug(r1.doc)
             d3 == SetPath(d2, "date", Str(ParseDate(d2.f["date"].s).iso))
         IN [doc |-> SetPath(d3, "time", Str(normalizeTime(d3.f["time"].s).time)), err |-> NoError]

\* Line 157-204: the pre-save hook. It works on the document itself, so what
\* it assigned before a throw stays assigned.
EventPreSaveHook(doc0) ==
    LET r1 == RequireStrings(doc0, 1) IN
    IF r1.err # NoError THEN r1
    ELSE LET d2 == DeriveSlug(r1.doc)
             parsedDate == ParseDate(d2.f["date"].s)
         IN IF ~parsedDate.ok THEN [doc |-> d2, err |-> InvalidDateError]
            ELSE LET d3 == SetPath(d2, "date", Str(parsedDate.iso))
                     t == normalizeTime(d3.f["time"].s)
                 IN IF ~t.ok THEN [doc |-> d3, err |-> InvalidTimeError]
                    ELSE [doc |-> SetPath(d3, "time", Str(t.time)), err |-> NoError]

Removed == [removed |-> TRUE]
NoDoc == [none |-> TRUE]

EventIds == 1..Len(events)
LiveEventIds == {i \in EventIds : events[i] # Removed}

\* The slug index, were it not unique
SlugConflict_NoUniqueIndex(v, id) == FALSE

\* Line 68-72 and 149: the unique index on slug, as the store enforces it on
\* a write of slug value v to the document id.
SlugConflict(v, id) ==
    \E i \in LiveEventIds : i # id /\ events[i].f["slug"] = v

\* What the store holds of a document
Stored(doc) == [f |-> doc.f, agenda |-> doc.agenda, tags |-> doc.tags]

----------------------------------------------------------------------------
(* The Event documents callers submit *)

ValidDate == <<"2", "0", "2", "4", "-", "0", "3", "-", "0", "1">>
ValidTime == <<"1", "4", ":", "3", "0">>
SomeText == <<"7">>

BaseAttrs ==
    [f |-> [path \in StringPaths |->
              CASE path = "title" -> Str(<<"A">>)
                [] path = "slug" -> Absent
                [] path = "date" -> Str(ValidDate)
                [] path = "time" -> Str(ValidTime)
                [] OTHER -> Str(SomeText)],
     agenda |-> <<<<"I", "n", "t", "r", "o">>>>,
     tags |-> <<<<"a", "i">>>>]

Titles == {<<"A">>, <<"a", "!">>, <<" ", "B", " ", " ", "-", "c">>, <<"&">>, <<" ">>}

Dates == {ValidDate, ValidDate \o MidnightUTC, <<"s", "o", "o", "n">>}

Times == {ValidTime, ValidTime \o <<":", "5", "9">>, <<"n", "o", "o", "n">>}

Texts == {SomeText, <<" ", "7", " ">>, <<" ">>}

Slugs == {<<"a">>, <<>>}

ValuesOf(path) ==
    {Absent, NonString} \cup (IF path \in {"slug", "date", "time"} THEN {} ELSE {Number7}) \cup
    {Str(s) : s \in CASE path = "title" -> Titles
                      [] path = "slug" -> Slugs
                      [] path = "date" -> Dates
                      [] path = "time" -> Times
                      [] OTHER -> Texts}

Arrays == {<<>>, <<<<"x">>, <<" ">>>>}

\* The base document with one attribute replaced
EventInputs ==
    {BaseAttrs}
    \cup UNION {{[BaseAttrs EXCEPT !.f[path] = v] : v \in ValuesOf(path)} : path \in StringPaths}
    \cup {[BaseAttrs EXCEPT !.agenda = a] : a \in Arrays}
    \cup {[BaseAttrs EXCEPT !.tags = a] : a \in Arrays}

\* The paths a caller reassigns on a document it holds
EditablePaths == {"title", "slug"}

----------------------------------------------------------------------------
(* Operations on Events *)

\* A caller builds a document: new Event(attrs)
EventNew(attrs) ==
    /\ epc \in {"none", "saved", "failed"}
    /\ Len(events) < MaxEvents
    /\ edoc' = NewEvent(attrs)
    /\ epc' = "ready"
    /\ eerr' = NoError
    /\ UNCHANGED <<events, connVars, bookingVars>>

\* A caller fetches a stored document: Event.findById(id)
EventLoad(id) ==
    /\ epc \in {"none", "saved", "failed"}
    /\ id \in LiveEventIds
    /\ edoc' = [id |-> id, isNew |-> FALSE, f |-> events[id].f,
                agenda |-> events[id].agenda, tags |-> events[id].tags,
                modified |-> {}, castErrors |-> {}]
    /\ epc' = "ready"
    /\ eerr' = NoError
    /\ UNCHANGED <<events, connVars, bookingVars>>

\* A caller assigns a path of a stored document it holds: doc[path] = v
EventSet(path, v) ==
    /\ epc \in {"ready", "saved", "failed"}
    /\ ~edoc.isNew
    /\ edoc' = SetPath(edoc, path, v)
    /\ edoc' # edoc
    /\ epc' = "ready"
    /\ eerr' = NoError
    /\ UNCHANGED <<events, connVars, bookingVars>>

\* doc.save(), up to the write: the schema's validation, then the pre-save
\* hook of line 157-204.
EventPreSave ==
    /\ epc = "ready"
    /\ IF ~SchemaValid(edoc)
       THEN /\ epc' = "failed"
            /\ eerr' = ValidationError
            /\ UNCHANGED edoc
       ELSE LET r == EventPreSaveHook(edoc) IN
            /\ edoc' = r.doc
            /\ eerr' = r.err
            /\ epc' = IF r.err = NoError THEN "hooked" ELSE "failed"
    /\ UNCHANGED <<events, connVars, bookingVars>>

\* doc.save(), the write: an insert of a new document, or an update of the
\* modified paths of a stored one; the store enforces the unique index.
EventCommit ==
    /\ epc = "hooked"
    /\ IF edoc.isNew
       THEN IF SlugConflict(edoc.f["slug"], 0)
            THEN /\ epc' = "failed"
                 /\ eerr' = DuplicateKeyError
                 /\ UNCHANGED <<events, edoc>>
            ELSE /\ events' = Append(events, Stored(edoc))
                 /\ edoc' = [edoc EXCEPT !.id = Len(events'), !.isNew = FALSE, !.modified = {}]
                 /\ epc' = "saved"
                 /\ eerr' = NoError
       ELSE IF edoc.modified = {}
            THEN /\ epc' = "saved"
                 /\ eerr' = NoError
                 /\ UNCHANGED <<events, edoc>>
            ELSE IF events[edoc.id] = Removed
                 THEN /\ epc' = "failed"
                      /\ eerr' = DocumentNotFoundError
                      /\ UNCHANGED <<events, edoc>>
                 ELSE IF "slug" \in edoc.modified /\ SlugConflict(edoc.f["slug"], edoc.id)
                      THEN /\ epc' = "failed"
                           /\ eerr' = DuplicateKeyError
                           /\ UNCHANGED <<events, edoc>>
                      ELSE /\ events' = [events EXCEPT ![edoc.id].f =
                                           [path \in StringPaths |->
                                              IF path \in edoc.modified THEN edoc.f[path] ELSE @[path]]]
                           /\ edoc' = [edoc EXCEPT !.modified = {}]
                           /\ epc' = "saved"
                           /\ eerr' = NoError
    /\ UNCHANGED <<connVars, bookingVars>>

\* Another caller removes an Event: Event.deleteOne({_id: id})
EventRemove(id) ==
    /\ id \in LiveEventIds
    /\ events' = [events EXCEPT ![id] = Removed]
    /\ UNCHANGED <<edoc, epc, eerr, connVars, bookingVars>>

----------------------------------------------------------------------------
(* src/unnamed/part_001: the Booking model *)

EventMissingError == "Cannot create booking: referenced event does not exist."
InvalidEmailError == "Email must be a valid email address."

\* Line 20: /^[^\s@]+@[^\s@]+\.[^\s@]+$/
emailRegex(s) ==
    \E i \in 1..Len(s) : \E j \in 1..Len(s) :
        /\ s[i] = "@"
        /\ s[j] = "."
        /\ 1 < i /\ i + 1 < j /\ j < Len(s)
        /\ \A k \in 1..Len(s) : k # i => ~IsSpace(s[k]) /\ s[k] # "@"

\* The setters, were lowercase: true left out
EmailSetters_NoLowercase(s) == Trim(s)

\* Line 29-33: the setters of the email path, applied when it is assigned
EmailSetters(s) == ToLowerCase(Trim(s))

\* new Booking({eventId, email}); eventId 0 stands for a missing eventId.
\* input keeps what the caller passed as email.
NewBooking(eventId, email) ==
    [id |-> 0, eventId |-> eventId, input |-> email,
     email |-> IF Castable(email) THEN Str(EmailSetters(email.s)) ELSE Absent,
     castErrors |-> IF email = NonString THEN {"email"} ELSE {}]

\* Line 24-38: required eventId, required email, the email validator
BookingSchemaValid(doc) ==
    /\ doc.castErrors = {}
    /\ doc.eventId # 0
    /\ RequiredOk(doc.email)
    /\ emailRegex(doc.email.s)

\* Line 60, were the query of line 59 not awaited: a pending query is truthy
EventNotFound_NotAwaited == FALSE

\* Line 60: !existingEvent
EventNotFound == existingEvent = "null"

\* Line 59, were the query to match any Event rather than the one of the id
FindById_NoFilter(id) == IF LiveEventIds # {} THEN "found" ELSE "null"

\* Line 59, the query as the store runs it: Event.findById(doc.eventId)
FindById(id) == IF id \in LiveEventIds THEN "found" ELSE "null"

Emails ==
    {<<"F", "@", "B", ".", "C">>, <<" ", "a", "@", "b", ".", "c", " ">>,
     <<"a", ".", "b", "@", "c", ".", "d", ".", "e">>,
     <<"a", "@", "b">>, <<"a", " ", "b", "@", "c", ".", "d">>, <<"a", "@", "@", "b", ".", "c">>,
     <<"@", "b", ".", "c">>, <<"a", "@", "b", ".">>, <<"a", "@", ".", "c">>, <<" ">>}

EmailValues == {Absent, NonString, Number7} \cup {Str(s) : s \in Emails}

\* The event ids a caller may pass: the ids ever issued, one never issued,
\* and none at all
BookingEventIds == 0..(Len(events) + 1)

\* The Event the base attributes are stored as
BaseStored == Stored(EventPreSaveHook(NewEvent(BaseAttrs)).doc)

----------------------------------------------------------------------------
(* Operations on Bookings *)

\* A caller builds a document: new Booking({eventId, email})
BookingNew(eventId, email) ==
    /\ bpc \in {"none", "saved", "failed"}
    /\ Len(bookings) < MaxBookings
    /\ bdoc' = NewBooking(eventId, email)
    /\ bpc' = "ready"
    /\ berr' = NoError
    /\ existingEvent' = "unset"
    /\ UNCHANGED <<bookings, connVars, eventVars>>

\* doc.save(): the schema's validation, which runs before the pre-save hook
BookingValidate ==
    /\ bpc = "ready"
    /\ IF BookingSchemaValid(bdoc)
       THEN /\ bpc' = "validated"
            /\ UNCHANGED berr
       ELSE /\ bpc' = "failed"
            /\ berr' = ValidationError
    /\ UNCHANGED <<bookings, bdoc, existingEvent, connVars, eventVars>>

\* Line 59: the store answers the hook's Event.findById
BookingLookup ==
    /\ bpc = "validated"
    /\ existingEvent' = FindById(bdoc.eventId)
    /\ bpc' = "looked"
    /\ UNCHANGED <<bookings, bdoc, berr, connVars, eventVars>>

\* Line 60-72: the hook after its await
BookingHook ==
    /\ bpc = "looked"
    /\ IF EventNotFound
       THEN /\ bpc' = "failed"
            /\ berr' = EventMissingError
       ELSE IF ~emailRegex(bdoc.email.s)
            THEN /\ bpc' = "failed"
                 /\ berr' = InvalidEmailError
            ELSE /\ bpc' = "hooked"
                 /\ UNCHANGED berr
    /\ UNCHANGED <<bookings, bdoc, existingEvent, connVars, eventVars>>

\* doc.save(), the write: the document is inserted
BookingCommit ==
    /\ bpc = "hooked"
    /\ bookings' = Append(bookings, [eventId |-> bdoc.eventId, email |-> bdoc.email])
    /\ bdoc' = [bdoc EXCEPT !.id = Len(bookings')]
    /\ bpc' = "saved"
    /\ UNCHANGED <<berr, existingEvent, connVars, eventVars>>

----------------------------------------------------------------------------
(* src/lib/mongodb.ts *)

Callers == 1..NumCallers

ConfigurationError == "Please define the MONGODB_URI environment variable"
ConnectionError == "connection error"
NoResult == [kind |-> "none", handle |-> 0, error |-> ""]
Returned(h) == [kind |-> "returned", handle |-> h, error |-> ""]
Threw(e) == [kind |-> "threw", handle |-> 0, error |-> e]

\* Line 49, were only the settled connection consulted (conn is null here)
PromiseMissing_IgnoresPending == TRUE

\* Line 49: !cached.promise
PromiseMissing == promise = 0

\* Line 52, were the check left out
UriMissing_Never == FALSE

\* Line 52: !uri
UriMissing == ~uri

\* mongoose.connect(uri): a new attempt is started; its promise is pending.
MongooseConnect == Append(attempts, "pending")

\* Lines 44-65 up to the await: everything connectToDatabase does before it
\* first suspends. No other code runs in between.
ConnectCall(c) ==
    /\ cpc[c] = "idle"
    /\ IF conn # 0
       THEN \* line 44-47: reuse the existing connection
            /\ cpc' = [cpc EXCEPT ![c] = "returned"]
            /\ cres' = [cres EXCEPT ![c] = Returned(conn)]
            /\ UNCHANGED <<conn, promise, attempts, envReads, cawait>>
       ELSE IF PromiseMissing
            THEN \* line 50: read the environment
                 /\ envReads' = envReads + 1
                 /\ IF UriMissing
                    THEN \* line 52-56
                         /\ cpc' = [cpc EXCEPT ![c] = "threw"]
                         /\ cres' = [cres EXCEPT ![c] = Threw(ConfigurationError)]
                         /\ UNCHANGED <<conn, promise, attempts, cawait>>
                    ELSE \* line 59-61, then the await of line 65
                         /\ attempts' = MongooseConnect
                         /\ promise' = Len(attempts')
                         /\ cawait' = [cawait EXCEPT ![c] = promise']
                         /\ cpc' = [cpc EXCEPT ![c] = "awaiting"]
                         /\ UNCHANGED <<conn, cres>>
            ELSE \* line 65: await the promise already cached
                 /\ cawait' = [cawait EXCEPT ![c] = promise]
                 /\ cpc' = [cpc EXCEPT ![c] = "awaiting"]
                 /\ UNCHANGED <<conn, promise, attempts, envReads, cres>>
    /\ UNCHANGED <<uri, eventVars, bookingVars>>

\* ConnectResume, were the rejection handled by clearing the cached promise
ConnectResume_ResetOnFailure(c) ==
    /\ cpc[c] = "awaiting"
    /\ attempts[cawait[c]] # "pending"
    /\ IF attempts[cawait[c]] = "ok"
       THEN /\ conn' = cawait[c]
            /\ cpc' = [cpc EXCEPT ![c] = "returned"]
            /\ cres' = [cres EXCEPT ![c] = Returned(conn')]
            /\ UNCHANGED promise
       ELSE /\ cpc' = [cpc EXCEPT ![c] = "threw"]
            /\ cres' = [cres EXCEPT ![c] = Threw(ConnectionError)]
            /\ promise' = 0
            /\ UNCHANGED conn
    /\ UNCHANGED <<attempts, uri, envReads, cawait, eventVars, bookingVars>>

\* Line 65-66 after the await: the awaited promise has settled.
ConnectResume(c) ==
    /\ cpc[c] = "awaiting"
    /\ attempts[cawait[c]] # "pending"
    /\ IF attempts[cawait[c]] = "ok"
       THEN /\ conn' = cawait[c]
            /\ cpc' = [cpc EXCEPT ![c] = "returned"]
            /\ cres' = [cres EXCEPT ![c] = Returned(conn')]
       ELSE /\ cpc' = [cpc EXCEPT ![c] = "threw"]
            /\ cres' = [cres EXCEPT ![c] = Threw(ConnectionError)]
            /\ UNCHANGED conn
    /\ UNCHANGED <<promise, attempts, uri, envReads, cawait, eventVars, bookingVars>>

\* The store answers a connection attempt: the promise of line 59 resolves.
AttemptSucceeds(a) ==
    /\ attempts[a] = "pending"
    /\ attempts' = [attempts EXCEPT ![a] = "ok"]
    /\ UNCHANGED <<conn, promise, uri, envReads, cpc, cawait, cres, eventVars, bookingVars>>

\* ... or the promise rejects.
AttemptFails(a) ==
    /\ attempts[a] = "pending"
    /\ attempts' = [attempts EXCEPT ![a] = "failed"]
    /\ UNCHANGED <<conn, promise, uri, envReads, cpc, cawait, cres, eventVars, bookingVars>>

\* The environment gains the connection string (line 50 reads it at each call).
SetUri ==
    /\ ~uri
    /\ uri' = TRUE
    /\ UNCHANGED <<conn, promise, attempts, envReads, cpc, cawait, cres, eventVars, bookingVars>>

----------------------------------------------------------------------------
(* Specifications *)

ConnNext ==
    \/ \E c \in Callers : ConnectCall(c)
    \/ \E c \in Callers : ConnectResume(c)
    \/ \E a \in 1..Len(attempts) : AttemptSucceeds(a)
    \/ \E a \in 1..Len(attempts) : AttemptFails(a)
    \/ SetUri

\* The module is loaded (line 29-33); MONGODB_URI is set or not yet.
ConnInit ==
    /\ conn = 0
    /\ promise = 0
    /\ attempts = <<>>
    /\ envReads = 0
    /\ cpc = [c \in Callers |-> "idle"]
    /\ cawait = [c \in Callers |-> 0]
    /\ cres = [c \in Callers |-> NoResult]
    /\ uri \in BOOLEAN
    /\ events = <<>>
    /\ edoc = NoDoc
    /\ epc = "none"
    /\ eerr = NoError
    /\ bookings = <<>>
    /\ bdoc = NoDoc
    /\ bpc = "none"
    /\ berr = NoError
    /\ existingEvent = "unset"

SpecConn == ConnInit /\ [][ConnNext]_vars

EventNext ==
    \/ \E attrs \in EventInputs : EventNew(attrs)
    \/ \E id \in EventIds : EventLoad(id)
    \/ \E path \in EditablePaths : \E v \in ValuesOf(path) : EventSet(path, v)
    \/ EventPreSave
    \/ EventCommit

\* An empty Event collection
EventInit ==
    /\ conn = 0
    /\ promise = 0
    /\ attempts = <<>>
    /\ envReads = 0
    /\ cpc = [c \in Callers |-> "idle"]
    /\ cawait = [c \in Callers |-> 0]
    /\ cres = [c \in Callers |-> NoResult]
    /\ uri = TRUE
    /\ events = <<>>
    /\ edoc = NoDoc
    /\ epc = "none"
    /\ eerr = NoError
    /\ bookings = <<>>
    /\ bdoc = NoDoc
    /\ bpc = "none"
    /\ berr = NoError
    /\ existingEvent = "unset"

SpecEvent == EventInit /\ [][EventNext]_vars

BookingNext ==
    \/ \E id \in BookingEventIds : \E email \in EmailValues : BookingNew(id, email)
    \/ BookingValidate
    \/ BookingLookup
    \/ BookingHook
    \/ BookingCommit
    \/ \E id \in EventIds : EventRemove(id)

\* An Event collection that is empty or holds the base Event, and no Booking
BookingInit ==
    /\ conn = 0
    /\ promise = 0
    /\ attempts = <<>>
    /\ envReads = 0
    /\ cpc = [c \in Callers |-> "idle"]
    /\ cawait = [c \in Callers |-> 0]
    /\ cres = [c \in Callers |-> NoResult]
    /\ uri = TRUE
    /\ events \in {<<>>, <<BaseStored>>}
    /\ edoc = NoDoc
    /\ epc = "none"
    /\ eerr = NoError
    /\ bookings = <<>>
    /\ bdoc = NoDoc
    /\ bpc = "none"
    /\ berr = NoError
    /\ existingEvent = "unset"

SpecBooking == BookingInit /\ [][BookingNext]_vars

\* The event loop runs the continuation of every await whose promise settled.
SpecConnFair == SpecConn /\ \A c \in Callers : WF_vars(ConnectResume(c))

----------------------------------------------------------------------------
(* Properties of the connection cache *)

PendingAttempts == {a \in 1..Len(attempts) : attempts[a] = "pending"}
ReturnedCallers == {c \in Callers : cpc[c] = "returned"}

\* C1: whatever the interleaving of connectToDatabase() calls, mongoose.connect
\* is invoked at most once, at most one attempt is in flight, and every call
\* that returns gives the one handle, which is the cached one.
C1_SingleConnection ==
    /\ Len(attempts) <= 1
    /\ Cardinality(PendingAttempts) <= 1
    /\ \A c \in ReturnedCallers : cres[c] = Returned(conn) /\ conn # 0
    /\ \A c, d \in ReturnedCallers : cres[c].handle = cres[d].handle

\* Two callers awaited the attempt and a later one took the cached handle.
C1_Witness ==
    \E c, d, e \in Callers :
        /\ c # d /\ cawait[c] # 0 /\ cawait[d] # 0 /\ cawait[e] = 0
        /\ {c, d, e} \subseteq ReturnedCallers

\* C2: a call that finds neither conn nor promise and no MONGODB_URI throws
\* the configuration error, starts no attempt and leaves conn and promise
\* unset.
C2_ConfigErrorFailsFast ==
    [][\A c \in Callers :
         (cpc[c] = "idle" /\ cpc'[c] # "idle" /\ conn = 0 /\ promise = 0 /\ ~uri)
         => /\ cpc'[c] = "threw"
            /\ cres'[c] = Threw(ConfigurationError)
            /\ attempts' = attempts
            /\ conn' = 0
            /\ promise' = 0]_vars

\* One call failed on the missing configuration and a later one connected.
C2_Witness ==
    \E c, d \in Callers :
        /\ cres[c] = Threw(ConfigurationError)
        /\ cpc[d] = "returned" /\ conn # 0

AttemptFailed == promise # 0 /\ attempts[promise] = "failed"

\* C9: once the attempt has failed, promise stays set and conn stays unset,
\* no new attempt is started and the environment is not read again; every
\* call that ends after the failure throws the connection error, and every
\* caller awaiting the attempt does get it.
C9_FailurePoisonsCache ==
    /\ [][AttemptFailed =>
            /\ promise' = promise
            /\ conn = 0 /\ conn' = 0
            /\ attempts' = attempts
            /\ envReads' = envReads
            /\ \A c \in Callers :
                 (cpc'[c] # cpc[c] /\ cpc'[c] # "awaiting")
                 => (cpc'[c] = "threw" /\ cres'[c] = Threw(ConnectionError))]_vars
    /\ [](AttemptFailed => \A c \in Callers : cpc[c] # "returned")
    /\ (AttemptFailed ~> (\A c \in Callers : cpc[c] # "awaiting"))

\* The attempt failed and every caller got the connection error of the one
\* attempt, the environment having been read once.
C9_Witness ==
    /\ AttemptFailed
    /\ \A c \in Callers : cres[c] = Threw(ConnectionError)
    /\ envReads = 1 /\ Len(attempts) = 1

----------------------------------------------------------------------------
(* Properties of the Booking pipeline *)

\* C3: when the hook's lookup found no Event, the save fails with the
\* 'referenced event does not exist' error and nothing is added to storage.
C3_MissingEventRejected ==
    [][(bpc = "looked" /\ existingEvent = "null" /\ bpc' # bpc)
       => /\ bpc' = "failed"
          /\ berr' = EventMissingError
          /\ bookings' = bookings]_vars

C3_Witness ==
    /\ bpc = "failed" /\ berr = EventMissingError
    /\ existingEvent = "null" /\ bdoc.id = 0

\* C4 as claimed: a Booking is committed only while the Event it references
\* exists.
C4_EventExistsAtCommit ==
    [][bookings' # bookings => bdoc.eventId \in LiveEventIds]_vars

\* C4 as the code has it: a Booking is committed only if the hook's lookup
\* found the Event it references, which therefore existed at the lookup.
C4_EventExistedAtLookup ==
    [][bookings' # bookings => (existingEvent = "found" /\ bdoc.eventId \in EventIds)]_vars

\* A Booking was committed after its Event, found by the lookup, was removed.
C4_Witness ==
    /\ bpc = "saved" /\ existingEvent = "found"
    /\ events[bdoc.eventId] = Removed
    /\ bookings[bdoc.id].eventId = bdoc.eventId

InputEmailOk(doc) ==
    Castable(doc.input) /\ emailRegex(ToLowerCase(Trim(doc.input.s)))

\* C8: every stored Booking's email is trimmed, lowercase and of the
\* local@domain.tld shape; a save whose email does not have that shape once
\* trimmed and lowercased never gets past validation and stores nothing; a
\* save that succeeds stored the trimmed lowercase form of what was passed.
C8_EmailNormalized ==
    /\ \A i \in 1..Len(bookings) :
         /\ IsString(bookings[i].email)
         /\ bookings[i].email.s = Trim(bookings[i].email.s)
         /\ bookings[i].email.s = ToLowerCase(bookings[i].email.s)
         /\ emailRegex(bookings[i].email.s)
    /\ (bpc \notin {"none", "ready"} /\ ~InputEmailOk(bdoc))
       => (bpc = "failed" /\ berr = ValidationError /\ bdoc.id = 0)
    /\ (bpc = "failed" /\ berr = ValidationError)
       => (~InputEmailOk(bdoc) \/ bdoc.eventId = 0)
    /\ bpc = "saved"
       => bookings[bdoc.id].email = Str(ToLowerCase(Trim(bdoc.input.s)))

\* An email passed in capitals was stored in lowercase.
C8_Witness ==
    /\ bpc = "saved"
    /\ bdoc.input.s # bookings[bdoc.id].email.s
    /\ bdoc.input.s # ToLowerCase(bdoc.input.s)

----------------------------------------------------------------------------
(* Properties of the Event pipeline *)

\* C5: no two stored Events have the same slug, and a commit whose slug is
\* that of another stored Event fails with the duplicate key error and
\* stores nothing.
C5_SlugUnique ==
    /\ [](\A i, j \in LiveEventIds : i # j => events[i].f["slug"] # events[j].f["slug"])
    /\ [][(epc = "hooked" /\ epc' # epc
           /\ \E i \in LiveEventIds : i # edoc.id /\ events[i].f["slug"] = edoc.f["slug"])
          => (epc' = "failed" /\ eerr' = DuplicateKeyError /\ events' = events)]_vars

\* A second Event with the title of a stored one was refused.
C5_Witness ==
    /\ epc = "failed" /\ eerr = DuplicateKeyError /\ edoc.isNew
    /\ \E i \in LiveEventIds : events[i].f["title"] = edoc.f["title"]

SlugMissing(doc) == doc.f["slug"] = Absent \/ doc.f["slug"] = Str(<<>>)

C7_FailureDiscardsNormalizations ==
    [][(epc = "ready" /\ epc' = "failed") => (events' = events /\ edoc' = edoc)]_vars

SlugAfterHook(doc) ==
    IF "title" \in doc.modified \/ SlugMissing(doc)
    THEN Str(slugify(Trim(doc.f["title"].s)))
    ELSE doc.f["slug"]

\* C7 as the code has it: a save that fails stores nothing, but the document
\* in memory keeps what the steps before the failing one assigned: the
\* recomputed slug after a date that does not parse, the recomputed slug and
\* the canonical date after a time that does not parse. Only a save refused
\* by the schema's validation leaves the document as it was.
C7_FailureKeepsNormalizations ==
    [][/\ (epc \in {"ready", "hooked"} /\ epc' = "failed") => events' = events
       /\ (epc = "ready" /\ epc' = "failed" /\ eerr' = ValidationError) => edoc' = edoc
       /\ (epc = "ready" /\ epc' = "failed" /\ eerr' = InvalidDateError)
          => /\ edoc'.f["slug"] = SlugAfterHook(edoc)
             /\ edoc'.f["date"] = edoc.f["date"]
       /\ (epc = "ready" /\ epc' = "failed" /\ eerr' = InvalidTimeError)
          => /\ edoc'.f["slug"] = SlugAfterHook(edoc)
             /\ edoc'.f["date"] = Str(ParseDate(edoc.f["date"].s).iso)
             /\ edoc'.f["time"] = edoc.f["time"]]_vars

\* A new document's save failed on its time and the document now carries a
\* slug and the canonical date, none of it stored.
C7_Witness ==
    /\ epc = "failed" /\ eerr = InvalidTimeError /\ edoc.isNew
    /\ edoc.f["slug"] = Str(slugify(edoc.f["title"].s))
    /\ Len(edoc.f["date"].s) = 24
    /\ "slug" \in edoc.modified

FieldUnfit(doc, field) ==
    \/ field \in doc.castErrors
    \/ ~IsString(doc.f[field])
    \/ Trim(doc.f[field].s) = <<>>

====
